---------------------------- MODULE Spec2Model ----------------------------
(***************************************************************************)
(* git-split-diffs: the streaming diff parsers.                            *)
(*                                                                         *)
(*   - iterSideBySideDiffsFormatted (src/unnamed/part_000), the            *)
(*     side-by-side parser: variables state, fileNameA, fileNameB, startA, *)
(*     startB, hunkHeaderLine, hunkLinesA, hunkLinesB, its yields in out.  *)
(*   - iterateUnifiedDiff (src/index.ts), the unified parser: variables    *)
(*     uState, uStartA, uDeltaA, uStartB, uDeltaB, hunkStartLine,          *)
(*     hunkLines, its yields in uOut.                                      *)
(*                                                                         *)
(* A string is a sequence of one-character strings, so that startsWith,    *)
(* indexOf, slice, split, parseInt and the regular expressions are         *)
(* computed character by character as the JavaScript code computes them.   *)
(* A JavaScript number is a sequence too: <<n>> for the integer n and <<>> *)
(* for NaN.  Both parsers read the same stream of raw lines, one line per  *)
(* step.                                                                   *)
(*                                                                         *)
(*   - iterateReadableLinesAsync (src/index.ts), the line reader:          *)
(*     variable prevLine, the stream in readable, its yields in rdOut.     *)
(*     It is run on its own, under ReaderSpec, on a text that arrives in   *)
(*     chunks cut at any place.                                            *)
(***************************************************************************)
EXTENDS Integers, Sequences, FiniteSets, TLC

VARIABLES
    corpus,          \* which family of input lines this run draws from
    input,           \* the raw lines read so far (history)
    pc,              \* side-by-side generator: "running", "done", "failed"
    state,
    fileNameA,
    fileNameB,
    startA,
    startB,
    hunkHeaderLine,
    hunkLinesA,
    hunkLinesB,
    out,             \* what the side-by-side generator has yielded
    uPc,             \* unified generator: "running", "done", "failed"
    uState,
    uStartA,
    uDeltaA,
    uStartB,
    uDeltaB,
    hunkStartLine,
    hunkLines,
    uOut,            \* what the unified generator has yielded
    readable,        \* line reader: the text of the stream not yet delivered
    chunks,          \* the chunks delivered so far (history)
    rdPc,            \* line reader: "running", "done"
    prevLine,
    rdOut            \* what the line reader has yielded

sbsVars == <<pc, state, fileNameA, fileNameB, startA, startB, hunkHeaderLine,
             hunkLinesA, hunkLinesB, out>>
uniVars == <<uPc, uState, uStartA, uDeltaA, uStartB, uDeltaB, hunkStartLine,
             hunkLines, uOut>>
readerVars == <<readable, chunks, rdPc, prevLine, rdOut>>
vars == <<corpus, input, sbsVars, uniVars, readerVars>>

(***************************************************************************)
(* Bounds of the model.                                                    *)
(***************************************************************************)
MaxLines == 3       \* lines read in a run of the header and file corpora
MaxHunkRun == 4     \* lines read in a run of the hunk corpus
MaxBody == 6        \* lines read in a run of the body corpus
MaxText == 4        \* characters of the text that the line reader reads

(***************************************************************************)
(* JavaScript values and string primitives.                                *)
(***************************************************************************)
NaN == <<>>
Num(n) == <<n>>
IsNum(v) == Len(v) = 1
Null == <<"null">>             \* the null placeholder of hunkLinesA/B
Undefined == <<"undefined">>   \* JavaScript's undefined
ESC == "ESC"                   \* the one character U+001B

Digits == <<"0", "1", "2", "3", "4", "5", "6", "7", "8", "9">>
IsDigit(c) == \E d \in 1..10 : Digits[d] = c
DigitVal(c) == (CHOOSE d \in 1..10 : Digits[d] = c) - 1

\* String.prototype.startsWith
StartsWith(s, p) == Len(s) >= Len(p) /\ SubSeq(s, 1, Len(p)) = p

\* String.prototype.endsWith (the "$" anchor of the regular expression)
EndsWith(s, p) == Len(s) >= Len(p) /\ SubSeq(s, Len(s) - Len(p) + 1, Len(s)) = p

\* s occurs in t at the 0-based index i
OccursAt(t, s, i) ==
    i >= 0 /\ i + Len(s) <= Len(t) /\ SubSeq(t, i + 1, i + Len(s)) = s

\* String.prototype.indexOf(s, from): 0-based, -1 when there is none
IndexOf(t, s, from) ==
    LET lo == IF from < 0 THEN 0 ELSE from
        hits == {i \in lo..(Len(t) - Len(s)) : OccursAt(t, s, i)}
    IN  IF hits = {} THEN -1 ELSE CHOOSE i \in hits : \A j \in hits : i <= j

\* String.prototype.slice(b, e) for 0 <= b (end exclusive, empty when e <= b)
Slice(t, b, e) ==
    LET hi == IF e > Len(t) THEN Len(t) ELSE e
    IN  IF b >= hi THEN <<>> ELSE SubSeq(t, b + 1, hi)

\* String.prototype.slice(b)
SliceFrom(t, b) == Slice(t, b, Len(t))

\* String.prototype.split(c) for a one-character separator
RECURSIVE Split(_, _)
Split(t, c) ==
    LET i == IndexOf(t, <<c>>, 0)
    IN  IF i < 0 THEN <<t>>
        ELSE <<Slice(t, 0, i)>> \o Split(SliceFrom(t, i + 1), c)

\* Destructuring [x0, x1] = array: a missing element is undefined
ElemOrUndefined(arr, k) == IF k <= Len(arr) THEN arr[k] ELSE Undefined

\* The value of a string of decimal digits
RECURSIVE DigitsValue(_, _)
DigitsValue(t, acc) ==
    IF t = <<>> \/ ~IsDigit(Head(t)) THEN acc
    ELSE DigitsValue(Tail(t), 10 * acc + DigitVal(Head(t)))

\* parseInt(t, 10): an optional sign, then the longest run of digits; NaN when
\* there is no digit (undefined is converted to the string "undefined": NaN).
\* The alphabet of the model holds no white space other than the space, which
\* split(' ') has removed before parseInt is called.
ParseIntBody(t, sign) ==
    IF t = <<>> \/ ~IsDigit(Head(t)) THEN NaN
    ELSE Num(sign * DigitsValue(t, 0))
\* A slip: no sign is read
ParseIntDigitsOnly(t) ==
    IF t = Undefined \/ t = <<>> THEN NaN ELSE ParseIntBody(t, 1)
ParseInt(t) ==
    IF t = Undefined \/ t = <<>> THEN NaN
    ELSE IF Head(t) = "-" THEN ParseIntBody(Tail(t), -1)
    ELSE IF Head(t) = "+" THEN ParseIntBody(Tail(t), 1)
    ELSE ParseIntBody(t, 1)

\* The length of the colour escape sequence ESC [ (digit | ;)* m at the head of
\* t, 0 when there is none: the sequences git writes, which ansi-regex matches.
RECURSIVE CsiParams(_)
CsiParams(t) ==
    IF t # <<>> /\ (IsDigit(Head(t)) \/ Head(t) = ";")
    THEN 1 + CsiParams(Tail(t)) ELSE 0
CsiLen(t) ==
    IF Len(t) >= 2 /\ t[1] = ESC /\ t[2] = "["
    THEN LET n == CsiParams(SliceFrom(t, 2))
         IN  IF Len(t) >= n + 3 /\ t[n + 3] = "m" THEN n + 3 ELSE 0
    ELSE 0

\* rawLine.replace(ANSI_COLOR_CODE_REGEX, '')
RECURSIVE StripAnsi(_)
StripAnsi(t) ==
    IF t = <<>> THEN <<>>
    ELSE IF CsiLen(t) > 0 THEN StripAnsi(SliceFrom(t, CsiLen(t)))
    ELSE <<Head(t)>> \o StripAnsi(Tail(t))


(***************************************************************************)
(* The literals of the two parsers.                                        *)
(***************************************************************************)
LitCommit == <<"c", "o", "m", "m", "i", "t", " ">>
LitDiffGit == <<"d", "i", "f", "f", " ", "-", "-", "g", "i", "t">>
LitHunkMark == <<"@", "@", " ">>
LitHunkClose == <<" ", "@", "@">>
LitMinusA == <<"-", "-", "-", " ", "a", "/">>
LitPlusB == <<"+", "+", "+", " ", "b", "/">>
LitRenameFrom == <<"r", "e", "n", "a", "m", "e", " ", "f", "r", "o", "m", " ">>
LitRenameTo == <<"r", "e", "n", "a", "m", "e", " ", "t", "o", " ">>
LitBinaryFiles == <<"B", "i", "n", "a", "r", "y", " ", "f", "i", "l", "e", "s">>
LitBinaryFilesSp == <<"B", "i", "n", "a", "r", "y", " ", "f", "i", "l", "e", "s", " ">>
LitAnd == <<" ", "a", "n", "d", " ">>
LitDiffer == <<" ", "d", "i", "f", "f", "e", "r">>
LitDevNull == <<"/", "d", "e", "v", "/", "n", "u", "l", "l">>
LitPathA == <<"a", "/">>
LitPathB == <<"b", "/">>
LitDiffSp == <<"d", "i", "f", "f", " ">>
LitAtAt == <<"@", "@">>
LitDashes == <<"-", "-", "-">>

(***************************************************************************)
(* The input: raw lines as git writes them.                                *)
(***************************************************************************)

\* The decimal digits of n >= 0
RECURSIVE Dec(_)
Dec(n) == IF n < 10 THEN <<Digits[n + 1]>> ELSE Dec(n \div 10) \o <<Digits[(n % 10) + 1]>>

\* "-<start>" or "-<start>,<count>"; a count of -1 stands for no count
Range(sign, start, count) ==
    <<sign>> \o Dec(start) \o (IF count < 0 THEN <<>> ELSE <<",">> \o Dec(count))

\* "@@ -<a>[,<x>] +<b>[,<y>] @@<trailing text>"
MkHunkHeader(a, x, b, y, trailing) ==
    LitHunkMark \o Range("-", a, x) \o <<" ">> \o Range("+", b, y)
        \o LitHunkClose \o trailing

\* "Binary files <x> and <y> differ"
MkBinaryLine(x, y) == LitBinaryFilesSp \o x \o LitAnd \o y \o LitDiffer

LineCommit == <<"c", "o", "m", "m", "i", "t", " ", "a">>
LineDiffGit == <<"d", "i", "f", "f", " ", "-", "-", "g", "i", "t">>
LineHunk == MkHunkHeader(10, 3, 15, 5, <<" ", "f">>)
LineDeleted == <<"-", "d">>
LineInserted == <<"+", "i">>
LineContext == <<" ", "c">>
LineColoured == <<ESC, "[", "1", "m", "x", ESC, "[", "m">>

\* Well-formed hunk headers as <<a, x, b, y, trailing text>>
HeaderCases ==
    { <<10, 3, 15, 5, <<" ", "f">>>>,
      <<5, -1, 5, -1, <<>> >>,
      <<0, 0, 1, 5, <<>> >>,
      <<7, 2, 8, -1, <<" ", "@", "@", " ", "g">>>> }
HeaderOf(c) == MkHunkHeader(c[1], c[2], c[3], c[4], c[5])

LineNoClose == <<"@", "@", " ", "-", "1", " ", "+", "1">>
LineBadA == <<"@", "@", " ", "1", " ", "+", "1", " ", "@", "@">>
LineBadB == <<"@", "@", " ", "-", "1", " ", "1", " ", "@", "@">>
LineNoB == <<"@", "@", " ", "-", "1", " ", "@", "@">>
LineNotNumeric == <<"@", "@", " ", "-", "x", " ", "+", "y", " ", "@", "@">>
LineNoSpace == <<"@", "@", "-", "1", " ", "+", "1", " ", "@", "@">>
LineDoubleSign == <<"@", "@", " ", "-", "-", "2", " ", "+", "1", " ", "@", "@">>
MalformedHeaders == {LineNoClose, LineBadA, LineBadB, LineNoB}

\* The two sides of a binary diff line as <<x, y>>
PathOld == <<"o", " ", "n">>
PathNew == <<"n", " ", "n">>
BinaryCases ==
    { <<LitPathA \o PathOld, LitPathB \o PathNew>>,
      <<LitPathA \o PathOld, LitDevNull>>,
      <<LitDevNull, LitPathB \o PathNew>>,
      <<LitDevNull, LitDevNull>> }
BinaryOf(c) == MkBinaryLine(c[1], c[2])

LineMinusA == <<"-", "-", "-", " ", "a", "/", "f">>
LinePlusB == <<"+", "+", "+", " ", "b", "/", "g">>
LineRenameFrom == <<"r", "e", "n", "a", "m", "e", " ", "f", "r", "o", "m", " ", "f">>
LineRenameTo == <<"r", "e", "n", "a", "m", "e", " ", "t", "o", " ", "g">>
LineBinaryOther == <<"B", "i", "n", "a", "r", "y", " ", "f", "i", "l", "e", "s", " ", "d", "i", "f", "f", "e", "r">>
\* "Binary files x and y differ", as git writes it under --no-prefix
LineBinaryNoPrefix == MkBinaryLine(<<"x">>, <<"y">>)
\* "Binary files" lines that BINARY_FILES_DIFF_REGEX does not match
NonMatchingBinary == {LineBinaryOther, LineBinaryNoPrefix}

Markers == {LineCommit, LineDiffGit, LineHunk}
Corpus(c) ==
    IF c = "hunk"
    THEN Markers \cup {LineDeleted, LineInserted, LineContext, LineColoured}
    ELSE IF c = "body"
    THEN {LineHunk, LineDeleted, LineInserted, LineContext}
    ELSE IF c = "header"
    THEN {LineDiffGit, LineDeleted, LineNotNumeric, LineDoubleSign, LineNoSpace}
             \cup {HeaderOf(h) : h \in HeaderCases} \cup MalformedHeaders
    ELSE Markers \cup {LineMinusA, LinePlusB, LineRenameFrom, LineRenameTo}
             \cup NonMatchingBinary
             \cup {BinaryOf(b) : b \in BinaryCases}
Corpora == {"hunk", "body", "header", "file"}
MaxInput(c) ==
    IF c = "hunk" THEN MaxHunkRun ELSE IF c = "body" THEN MaxBody ELSE MaxLines

\* The pure functions of a line, tabulated over the lines of the corpora
AllLines == UNION {Corpus(c) : c \in Corpora}
Sanitized == [rawLine \in AllLines |-> StripAnsi(rawLine)]

(***************************************************************************)
(* The side-by-side parser, src/unnamed/part_000.                          *)
(***************************************************************************)

\* line.match(BINARY_FILES_DIFF_REGEX), the part after the second alternative
\* group: "b/(.*) differ$" first, then "/dev/null differ$".  The group is
\* undefined when its alternative took no part in the match.
BinaryRest(rest) ==
    IF StartsWith(rest, LitPathB) /\ EndsWith(rest, LitDiffer)
       /\ Len(rest) >= Len(LitPathB) + Len(LitDiffer)
    THEN [matched |-> TRUE,
          g2 |-> Slice(rest, Len(LitPathB), Len(rest) - Len(LitDiffer))]
    ELSE IF rest = LitDevNull \o LitDiffer
    THEN [matched |-> TRUE, g2 |-> Undefined]
    ELSE [matched |-> FALSE, g2 |-> Undefined]

\* line.match(BINARY_FILES_DIFF_REGEX): "a/(.*)" is tried first, its greedy
\* group backtracking from the longest candidate, so the last " and " after
\* which the rest of the pattern matches wins; then "/dev/null".
BinaryMatch(line) ==
    LET p == Len(LitBinaryFilesSp)
        splitsA == {k \in (p + Len(LitPathA))..Len(line) :
                       /\ OccursAt(line, LitAnd, k)
                       /\ BinaryRest(SliceFrom(line, k + Len(LitAnd))).matched}
        kA == CHOOSE k \in splitsA : \A j \in splitsA : j <= k
        kN == p + Len(LitDevNull)
    IN  IF ~StartsWith(line, LitBinaryFilesSp)
        THEN [matched |-> FALSE, g1 |-> Undefined, g2 |-> Undefined]
        ELSE IF OccursAt(line, LitPathA, p) /\ splitsA # {}
        THEN [matched |-> TRUE,
              g1 |-> Slice(line, p + Len(LitPathA), kA),
              g2 |-> BinaryRest(SliceFrom(line, kA + Len(LitAnd))).g2]
        ELSE IF /\ OccursAt(line, LitDevNull, p)
                /\ OccursAt(line, LitAnd, kN)
                /\ BinaryRest(SliceFrom(line, kN + Len(LitAnd))).matched
        THEN [matched |-> TRUE,
              g1 |-> Undefined,
              g2 |-> BinaryRest(SliceFrom(line, kN + Len(LitAnd))).g2]
        ELSE [matched |-> FALSE, g1 |-> Undefined, g2 |-> Undefined]

\* A slip: the assertion on the "+" of the B-part is missing
ParseHunkHeaderLenientB(line) ==
    LET hunkHeaderStart == IndexOf(line, LitHunkMark, 0)
        hunkHeaderEnd == IndexOf(line, LitHunkClose, hunkHeaderStart + 1)
        hunkHeader == Slice(line, hunkHeaderStart + 3, hunkHeaderEnd)
        parts == Split(hunkHeader, " ")
        aHeader == parts[1]
        bHeader == ElemOrUndefined(parts, 2)
        startAString == Split(aHeader, ",")[1]
        startBString == Split(bHeader, ",")[1]
        a == ParseInt(SliceFrom(startAString, 1))
        b == ParseInt(SliceFrom(startBString, 1))
    IN  IF ~(hunkHeaderStart >= 0) \/ ~(hunkHeaderEnd > hunkHeaderStart)
        THEN [reached |-> 0, startA |-> NaN, startB |-> NaN]
        ELSE IF bHeader = Undefined \/ ~StartsWith(startAString, <<"-">>)
        THEN [reached |-> 1, startA |-> NaN, startB |-> NaN]
        ELSE [reached |-> 3, startA |-> a, startB |-> b]

\* The hunk header of a line that starts with "@@ " (lines 85-100).  reached
\* tells how far the code ran before it threw: 0 an assertion of lines 87-88
\* failed, 1 bHeader.split threw or the assertion of line 96 failed, 2 the
\* assertion of line 99 failed, 3 nothing threw.
ParseHunkHeader(line) ==
    LET hunkHeaderStart == IndexOf(line, LitHunkMark, 0)
        hunkHeaderEnd == IndexOf(line, LitHunkClose, hunkHeaderStart + 1)
        hunkHeader == Slice(line, hunkHeaderStart + 3, hunkHeaderEnd)
        parts == Split(hunkHeader, " ")
        aHeader == parts[1]
        bHeader == ElemOrUndefined(parts, 2)
        startAString == Split(aHeader, ",")[1]
        startBString == Split(bHeader, ",")[1]
        a == ParseInt(SliceFrom(startAString, 1))
        b == ParseInt(SliceFrom(startBString, 1))
    IN  IF ~(hunkHeaderStart >= 0) \/ ~(hunkHeaderEnd > hunkHeaderStart)
        THEN [reached |-> 0, startA |-> NaN, startB |-> NaN]
        ELSE IF bHeader = Undefined \/ ~StartsWith(startAString, <<"-">>)
        THEN [reached |-> 1, startA |-> NaN, startB |-> NaN]
        ELSE IF ~StartsWith(startBString, <<"+">>)
        THEN [reached |-> 2, startA |-> a, startB |-> NaN]
        ELSE [reached |-> 3, startA |-> a, startB |-> b]

\* What the generator yields: one event per call of a formatter.
FileNameEvent(a, b) == [k |-> "file", a |-> a, b |-> b]
HunkEvent(header, a, b, linesA, linesB, sA, sB) ==
    [k |-> "hunk", header |-> header, a |-> a, b |-> b,
     linesA |-> linesA, linesB |-> linesB, startA |-> sA, startB |-> sB]
SeparatorEvent == [k |-> "separator"]
RawEvent(rawLine) == [k |-> "raw", line |-> rawLine]
CommitEvent(line) == [k |-> "commit", line |-> line]

\* yield* yieldFileName()
YieldFileName == <<FileNameEvent(fileNameA, fileNameB)>>

\* yield* yieldHunk(), its yields (it also empties hunkLinesA and hunkLinesB)
YieldHunk ==
    <<HunkEvent(hunkHeaderLine, fileNameA, fileNameB, hunkLinesA, hunkLinesB,
                startA, startB)>>

\* A slip: a separator after a pending file header too
FlushAtCommitSeparatesAlways ==
    IF state = "diff" THEN YieldFileName \o <<SeparatorEvent>>
    ELSE IF state = "hunk" THEN YieldHunk \o <<SeparatorEvent>>
    ELSE <<>>

\* The flush at a "commit " line (lines 60-65)
FlushAtCommit ==
    IF state = "diff" THEN YieldFileName
    ELSE IF state = "hunk" THEN YieldHunk \o <<SeparatorEvent>>
    ELSE <<>>

\* The flush at a "diff --git" line (lines 69-73)
FlushAtDiff ==
    IF state = "diff" THEN YieldFileName
    ELSE IF state = "hunk" THEN YieldHunk
    ELSE <<>>

\* A slip: the pending hunk is forgotten at a "@@ " line
FlushAtHunkFileOnly == IF state = "diff" THEN YieldFileName ELSE <<>>

\* The flush at a "@@ " line (lines 79-83)
FlushAtHunk ==
    IF state = "diff" THEN YieldFileName
    ELSE IF state = "hunk" THEN YieldHunk
    ELSE <<>>

\* A slip: the pending hunk is forgotten at the end of the stream
FlushAtEndFileOnly == IF state = "diff" THEN YieldFileName ELSE <<>>

\* The flush at the end of the stream (lines 155-159)
FlushAtEnd ==
    IF state = "diff" THEN YieldFileName
    ELSE IF state = "hunk" THEN YieldHunk
    ELSE <<>>

\* A slip: yieldHunk does not empty the lists
AfterFlushKeeps(hunkLinesX) == hunkLinesX

\* hunkLinesA / hunkLinesB after the flush: yieldHunk empties them
AfterFlush(hunkLinesX) == IF state = "hunk" THEN <<>> ELSE hunkLinesX

\* A slip: the padding loops are missing
PadWithNullNever(xs, n) == xs

\* while (xs.length < n) xs.push(null)
RECURSIVE PadWithNull(_, _)
PadWithNull(xs, n) ==
    IF Len(xs) < n THEN PadWithNull(Append(xs, Null), n) ELSE xs

\* A slip: an inserted line pushes a placeholder on the before side at once
CollectAPadsOnInsert(linesA, linesB, line) ==
    IF StartsWith(line, <<"-">>) THEN Append(linesA, line)
    ELSE IF StartsWith(line, <<"+">>) THEN Append(linesA, Null)
    ELSE Append(linesA, line)

\* A slip: a context line is pushed on the after side without padding it
CollectBNoPad(linesA, linesB, line) ==
    IF StartsWith(line, <<"-">>) THEN linesB
    ELSE Append(linesB, line)

\* A slip: a deleted line is pushed on the after side too
CollectBTakesDeleted(linesA, linesB, line) ==
    IF StartsWith(line, <<"+">>) THEN Append(linesB, line)
    ELSE Append(PadWithNull(linesB, Len(linesA)), line)

\* case 'hunk': the two lists after the line is collected
CollectA(linesA, linesB, line) ==
    IF StartsWith(line, <<"-">>) THEN Append(linesA, line)
    ELSE IF StartsWith(line, <<"+">>) THEN linesA
    ELSE Append(PadWithNull(linesA, Len(linesB)), line)
CollectB(linesA, linesB, line) ==
    IF StartsWith(line, <<"-">>) THEN linesB
    ELSE IF StartsWith(line, <<"+">>) THEN Append(linesB, line)
    ELSE Append(PadWithNull(linesB, Len(linesA)), line)

\* The pure functions of a sanitized line, tabulated over the corpora
SanitizedLines == {Sanitized[rawLine] : rawLine \in AllLines}
HunkHeaderOf == [line \in SanitizedLines |-> ParseHunkHeader(line)]
BinaryMatchOf == [line \in SanitizedLines |-> BinaryMatch(line)]

\* A slip: the groups are taken from the match without the test on it
NextFileNameAUntested(line) ==
    IF StartsWith(line, LitMinusA) THEN SliceFrom(line, Len(LitMinusA))
    ELSE IF StartsWith(line, LitPlusB) THEN fileNameA
    ELSE IF StartsWith(line, LitRenameFrom) THEN SliceFrom(line, Len(LitRenameFrom))
    ELSE IF StartsWith(line, LitRenameTo) THEN fileNameA
    ELSE IF StartsWith(line, LitBinaryFiles) THEN BinaryMatchOf[line].g1
    ELSE fileNameA

\* case 'diff': the file names after the line is read
NextFileNameA(line) ==
    IF StartsWith(line, LitMinusA) THEN SliceFrom(line, Len(LitMinusA))
    ELSE IF StartsWith(line, LitPlusB) THEN fileNameA
    ELSE IF StartsWith(line, LitRenameFrom) THEN SliceFrom(line, Len(LitRenameFrom))
    ELSE IF StartsWith(line, LitRenameTo) THEN fileNameA
    ELSE IF StartsWith(line, LitBinaryFiles) /\ BinaryMatchOf[line].matched
    THEN BinaryMatchOf[line].g1
    ELSE fileNameA
NextFileNameB(line) ==
    IF StartsWith(line, LitMinusA) THEN fileNameB
    ELSE IF StartsWith(line, LitPlusB) THEN SliceFrom(line, Len(LitPlusB))
    ELSE IF StartsWith(line, LitRenameFrom) THEN fileNameB
    ELSE IF StartsWith(line, LitRenameTo) THEN SliceFrom(line, Len(LitRenameTo))
    ELSE IF StartsWith(line, LitBinaryFiles) /\ BinaryMatchOf[line].matched
    THEN BinaryMatchOf[line].g2
    ELSE fileNameB

\* One iteration of the for-await loop on a "commit " line
SbsCommitLine(line) ==
    /\ out' = out \o FlushAtCommit \o <<CommitEvent(line)>>
    /\ hunkLinesA' = AfterFlush(hunkLinesA)
    /\ hunkLinesB' = AfterFlush(hunkLinesB)
    /\ state' = "commit"
    /\ UNCHANGED <<pc, fileNameA, fileNameB, startA, startB, hunkHeaderLine>>

\* One iteration on a "diff --git" line (the switch then finds no file name
\* prefix on it)
SbsDiffLine(line) ==
    /\ out' = out \o FlushAtDiff
    /\ hunkLinesA' = AfterFlush(hunkLinesA)
    /\ hunkLinesB' = AfterFlush(hunkLinesB)
    /\ state' = "diff"
    /\ fileNameA' = <<>>
    /\ fileNameB' = <<>>
    /\ UNCHANGED <<pc, startA, startB, hunkHeaderLine>>

\* One iteration on a "@@ " line: the flush, then the header, which may throw
SbsHunkLine(line) ==
    LET h == HunkHeaderOf[line]
    IN  /\ out' = out \o FlushAtHunk
        /\ hunkLinesA' = AfterFlush(hunkLinesA)
        /\ hunkLinesB' = AfterFlush(hunkLinesB)
        /\ hunkHeaderLine' = IF h.reached >= 1 THEN line ELSE hunkHeaderLine
        /\ startA' = IF h.reached >= 2 THEN h.startA ELSE startA
        /\ startB' = IF h.reached = 3 THEN h.startB ELSE startB
        /\ state' = IF h.reached = 3 THEN "hunk" ELSE state
        /\ pc' = IF h.reached = 3 THEN "running" ELSE "failed"
        /\ UNCHANGED <<fileNameA, fileNameB>>

\* A slip: case 'unknown' yields the sanitized line
SbsOtherLineSanitized(rawLine, line) ==
    /\ out' = IF state = "unknown" THEN Append(out, RawEvent(line))
              ELSE IF state = "commit" THEN Append(out, CommitEvent(line))
              ELSE out
    /\ fileNameA' = IF state = "diff" THEN NextFileNameA(line) ELSE fileNameA
    /\ fileNameB' = IF state = "diff" THEN NextFileNameB(line) ELSE fileNameB
    /\ hunkLinesA' = IF state = "hunk" THEN CollectA(hunkLinesA, hunkLinesB, line)
                     ELSE hunkLinesA
    /\ hunkLinesB' = IF state = "hunk" THEN CollectB(hunkLinesA, hunkLinesB, line)
                     ELSE hunkLinesB
    /\ UNCHANGED <<pc, state, startA, startB, hunkHeaderLine>>

\* One iteration on any other line: the switch on state
SbsOtherLine(rawLine, line) ==
    /\ out' = IF state = "unknown" THEN Append(out, RawEvent(rawLine))
              ELSE IF state = "commit" THEN Append(out, CommitEvent(line))
              ELSE out
    /\ fileNameA' = IF state = "diff" THEN NextFileNameA(line) ELSE fileNameA
    /\ fileNameB' = IF state = "diff" THEN NextFileNameB(line) ELSE fileNameB
    /\ hunkLinesA' = IF state = "hunk" THEN CollectA(hunkLinesA, hunkLinesB, line)
                     ELSE hunkLinesA
    /\ hunkLinesB' = IF state = "hunk" THEN CollectB(hunkLinesA, hunkLinesB, line)
                     ELSE hunkLinesB
    /\ UNCHANGED <<pc, state, startA, startB, hunkHeaderLine>>

\* The body of "for await (const rawLine of lines)"
SbsReadLine(rawLine) ==
    LET line == Sanitized[rawLine]
    IN  IF StartsWith(line, LitCommit) THEN SbsCommitLine(line)
        ELSE IF StartsWith(line, LitDiffGit) THEN SbsDiffLine(line)
        ELSE IF StartsWith(line, LitHunkMark) THEN SbsHunkLine(line)
        ELSE SbsOtherLine(rawLine, line)

\* After the loop: the flush at the end of the stream
SbsEndOfStream ==
    /\ out' = out \o FlushAtEnd
    /\ hunkLinesA' = AfterFlush(hunkLinesA)
    /\ hunkLinesB' = AfterFlush(hunkLinesB)
    /\ pc' = "done"
    /\ UNCHANGED <<state, fileNameA, fileNameB, startA, startB, hunkHeaderLine>>

(***************************************************************************)
(* The unified parser, src/index.ts.                                       *)
(***************************************************************************)

\* offset < delta for an integer offset and a JavaScript number (false on NaN)
LessThan(offset, delta) == IsNum(delta) /\ offset < delta[1]

\* lineNo++ (NaN stays NaN)
Increment(n) == IF IsNum(n) THEN Num(n[1] + 1) ELSE NaN

\* The for loop of yieldHunkIfNeeded that sorts hunkLines into linesA / linesB
RECURSIVE LinesA(_)
LinesA(ls) ==
    IF ls = <<>> THEN <<>>
    ELSE IF StartsWith(Head(ls), <<"+">>) THEN LinesA(Tail(ls))
    ELSE <<Head(ls)>> \o LinesA(Tail(ls))
RECURSIVE LinesB(_)
LinesB(ls) ==
    IF ls = <<>> THEN <<>>
    ELSE IF StartsWith(Head(ls), <<"-">>) THEN LinesB(Tail(ls))
    ELSE <<Head(ls)>> \o LinesB(Tail(ls))

HunkStartEvent(line) == [k |-> "hunkStart", line |-> line]
RowEvent(noA, lineA, noB, lineB) ==
    [k |-> "row", noA |-> noA, lineA |-> lineA, noB |-> noB, lineB |-> lineB]
TextEvent(line) == [k |-> "text", line |-> line]
FileEvent(name) == [k |-> "file", name |-> name]

\* The while loop of yieldHunkIfNeeded from row offset on: the rows it yields,
\* and whether formatHunkLine threw on a missing (undefined) line, whose
\* line[0] is a TypeError.
RECURSIVE HunkRows(_, _, _, _, _)
HunkRows(linesA, linesB, offset, lineNoA, lineNoB) ==
    LET takeA == LessThan(offset, uDeltaA)
        takeB == LessThan(offset, uDeltaB)
        noA == IF takeA THEN Increment(lineNoA) ELSE lineNoA
        noB == IF takeB THEN Increment(lineNoB) ELSE lineNoB
        rest == HunkRows(linesA, linesB, offset + 1, noA, noB)
    IN  IF ~(takeA \/ takeB) THEN [rows |-> <<>>, threw |-> FALSE]
        ELSE IF (takeA /\ offset >= Len(linesA)) \/ (takeB /\ offset >= Len(linesB))
        THEN [rows |-> <<>>, threw |-> TRUE]
        ELSE [rows |-> <<RowEvent(noA, IF takeA THEN linesA[offset + 1] ELSE <<>>,
                                  noB, IF takeB THEN linesB[offset + 1] ELSE <<>>)>>
                       \o rest.rows,
              threw |-> rest.threw]

\* yield* yieldHunkIfNeeded(): its yields and whether it threw
YieldHunkIfNeeded ==
    IF hunkLines = <<>> THEN [rows |-> <<>>, threw |-> FALSE]
    ELSE LET r == HunkRows(LinesA(hunkLines), LinesB(hunkLines), 0, uStartA, uStartB)
         IN  [rows |-> <<HunkStartEvent(hunkStartLine)>> \o r.rows,
              threw |-> r.threw]

\* A slip: the sign is not sliced off the start numbers
UniParseHunkHeaderKeepsSign(line) ==
    LET hunkHeaderStart == IndexOf(line, LitHunkMark, 0)
        hunkHeaderEnd == IndexOf(line, LitHunkClose, hunkHeaderStart + 1)
        hunkHeader == Slice(line, hunkHeaderStart + 3, hunkHeaderEnd)
        parts == Split(hunkHeader, " ")
        aHeader == parts[1]
        bHeader == ElemOrUndefined(parts, 2)
        startAString == Split(aHeader, ",")[1]
        deltaAString == ElemOrUndefined(Split(aHeader, ","), 2)
        startBString == Split(bHeader, ",")[1]
        deltaBString == ElemOrUndefined(Split(bHeader, ","), 2)
        none == [startA |-> NaN, deltaA |-> NaN, startB |-> NaN, deltaB |-> NaN]
    IN  IF ~(hunkHeaderStart >= 0) \/ ~(hunkHeaderEnd > hunkHeaderStart)
        THEN [reached |-> 0] @@ none
        ELSE IF bHeader = Undefined \/ ~StartsWith(startAString, <<"-">>)
        THEN [reached |-> 1] @@ none
        ELSE IF ~StartsWith(startBString, <<"+">>)
        THEN [reached |-> 2, startA |-> ParseInt(startAString),
              deltaA |-> ParseInt(deltaAString), startB |-> NaN, deltaB |-> NaN]
        ELSE [reached |-> 3, startA |-> ParseInt(startAString),
              deltaA |-> ParseInt(deltaAString),
              startB |-> ParseInt(startBString), deltaB |-> ParseInt(deltaBString)]

\* The hunk header of a line that starts with "@@" (lines 143-160).  reached:
\* 0 an assertion of lines 145-146 failed, 1 bHeader.split threw or the
\* assertion of line 154 failed, 2 the assertion of line 158 failed, 3 nothing
\* threw.
UniParseHunkHeader(line) ==
    LET hunkHeaderStart == IndexOf(line, LitHunkMark, 0)
        hunkHeaderEnd == IndexOf(line, LitHunkClose, hunkHeaderStart + 1)
        hunkHeader == Slice(line, hunkHeaderStart + 3, hunkHeaderEnd)
        parts == Split(hunkHeader, " ")
        aHeader == parts[1]
        bHeader == ElemOrUndefined(parts, 2)
        startAString == Split(aHeader, ",")[1]
        deltaAString == ElemOrUndefined(Split(aHeader, ","), 2)
        startBString == Split(bHeader, ",")[1]
        deltaBString == ElemOrUndefined(Split(bHeader, ","), 2)
        a == ParseInt(SliceFrom(startAString, 1))
        b == ParseInt(SliceFrom(startBString, 1))
        none == [startA |-> NaN, deltaA |-> NaN, startB |-> NaN, deltaB |-> NaN]
    IN  IF ~(hunkHeaderStart >= 0) \/ ~(hunkHeaderEnd > hunkHeaderStart)
        THEN [reached |-> 0] @@ none
        ELSE IF bHeader = Undefined \/ ~StartsWith(startAString, <<"-">>)
        THEN [reached |-> 1] @@ none
        ELSE IF ~StartsWith(startBString, <<"+">>)
        THEN [reached |-> 2, startA |-> a, deltaA |-> ParseInt(deltaAString),
              startB |-> NaN, deltaB |-> NaN]
        ELSE [reached |-> 3, startA |-> a, deltaA |-> ParseInt(deltaAString),
              startB |-> b, deltaB |-> ParseInt(deltaBString)]

UniHunkHeaderOf == [line \in SanitizedLines |-> UniParseHunkHeader(line)]

\* One iteration of the for-await loop on a "diff " line (the switch then
\* finds no "---" on it)
UniDiffLine(line) ==
    LET f == YieldHunkIfNeeded
    IN  /\ uOut' = uOut \o f.rows
        /\ hunkLines' = IF f.threw THEN hunkLines ELSE <<>>
        /\ uState' = IF f.threw THEN uState ELSE "diff"
        /\ uPc' = IF f.threw THEN "failed" ELSE "running"
        /\ UNCHANGED <<uStartA, uDeltaA, uStartB, uDeltaB, hunkStartLine>>

\* One iteration on a "@@" line: the flush, then the header; either may throw
UniHunkLine(line) ==
    LET f == YieldHunkIfNeeded
        h == UniHunkHeaderOf[line]
        ran == IF f.threw THEN -1 ELSE h.reached
    IN  /\ uOut' = uOut \o f.rows
        /\ hunkLines' = IF f.threw THEN hunkLines ELSE <<>>
        /\ hunkStartLine' = IF ran >= 1 THEN line ELSE hunkStartLine
        /\ uStartA' = IF ran >= 2 THEN h.startA ELSE uStartA
        /\ uDeltaA' = IF ran >= 2 THEN h.deltaA ELSE uDeltaA
        /\ uStartB' = IF ran = 3 THEN h.startB ELSE uStartB
        /\ uDeltaB' = IF ran = 3 THEN h.deltaB ELSE uDeltaB
        /\ uState' = IF ran = 3 THEN "hunk" ELSE uState
        /\ uPc' = IF ran = 3 THEN "running" ELSE "failed"

\* One iteration on any other line: the switch on state
UniOtherLine(line) ==
    /\ uOut' = IF uState = "commit" THEN Append(uOut, TextEvent(line))
               ELSE IF uState = "diff" /\ StartsWith(line, LitDashes)
               THEN Append(uOut, FileEvent(SliceFrom(line, 6)))
               ELSE uOut
    /\ hunkLines' = IF uState = "hunk" THEN Append(hunkLines, line) ELSE hunkLines
    /\ UNCHANGED <<uPc, uState, uStartA, uDeltaA, uStartB, uDeltaB, hunkStartLine>>

\* The body of "for await (const line of lines)"; the line comes from
\* iterateLinesWithoutAnsiColors
UniReadLine(line) ==
    IF StartsWith(line, LitDiffSp) THEN UniDiffLine(line)
    ELSE IF StartsWith(line, LitAtAt) THEN UniHunkLine(line)
    ELSE UniOtherLine(line)

\* After the loop: the last yieldHunkIfNeeded
UniEndOfStream ==
    LET f == YieldHunkIfNeeded
    IN  /\ uOut' = uOut \o f.rows
        /\ hunkLines' = IF f.threw THEN hunkLines ELSE <<>>
        /\ uPc' = IF f.threw THEN "failed" ELSE "done"
        /\ UNCHANGED <<uState, uStartA, uDeltaA, uStartB, uDeltaB, hunkStartLine>>


(***************************************************************************)
(* The line reader, src/index.ts: iterateReadableLinesAsync.               *)
(***************************************************************************)
CR == "CR"
LF == "LF"

\* The texts a stream may hold
TextChars == {"a", "b", CR, LF}
RECURSIVE TextsOfLen(_)
TextsOfLen(n) ==
    IF n = 0 THEN {<<>>}
    ELSE {Append(t, c) : t \in TextsOfLen(n - 1), c \in TextChars}
Texts == UNION {TextsOfLen(n) : n \in 0..MaxText}

\* chunk.toString().split(/\r\n|\n/): the pieces between the separators, the
\* piece being collected in cur; a "\r" not followed by "\n" stays in its piece
RECURSIVE SplitLines(_, _)
SplitLines(t, cur) ==
    IF t = <<>> THEN <<cur>>
    ELSE IF Len(t) >= 2 /\ t[1] = CR /\ t[2] = LF
    THEN <<cur>> \o SplitLines(SubSeq(t, 3, Len(t)), <<>>)
    ELSE IF t[1] = LF THEN <<cur>> \o SplitLines(Tail(t), <<>>)
    ELSE SplitLines(Tail(t), Append(cur, t[1]))

\* The for loop over the lines of one chunk, from index i (from 0, as in the
\* code) on: prevLine after it and what it yields
RECURSIVE ChunkLoop(_, _, _)
ChunkLoop(lines, i, prev) ==
    IF i >= Len(lines) THEN [prevLine |-> prev, yields |-> <<>>]
    ELSE LET line == lines[i + 1]
         IN  IF i = 0 /\ prev # Undefined /\ prev # <<>>
             THEN LET r == ChunkLoop(lines, i + 1, prev)
                  IN  [r EXCEPT !.yields = <<prev \o line>> \o @]
             ELSE IF i = Len(lines) - 1 /\ Len(line) > 0
             THEN ChunkLoop(lines, i + 1, line)
             ELSE LET r == ChunkLoop(lines, i + 1, prev)
                  IN  [r EXCEPT !.yields = <<line>> \o @]

\* One iteration of "for await (const chunk of readable)": the stream
\* delivers the next n characters as a chunk
ReadChunk(n) ==
    LET chunk == SubSeq(readable, 1, n)
        r == ChunkLoop(SplitLines(chunk, <<>>), 0, prevLine)
    IN  /\ rdPc = "running"
        /\ n \in 1..Len(readable)
        /\ readable' = SubSeq(readable, n + 1, Len(readable))
        /\ chunks' = Append(chunks, chunk)
        /\ prevLine' = r.prevLine
        /\ rdOut' = rdOut \o r.yields
        /\ UNCHANGED rdPc

\* After the loop: the stream has ended
ReaderEnd ==
    /\ rdPc = "running"
    /\ readable = <<>>
    /\ rdOut' = IF prevLine # Undefined /\ Len(prevLine) > 0
                THEN Append(rdOut, prevLine) ELSE rdOut
    /\ rdPc' = "done"
    /\ UNCHANGED <<readable, chunks, prevLine>>

(***************************************************************************)
(* The two generators driven by one stream of lines.                       *)
(***************************************************************************)
\* Both generators before their first line
ParsersInit ==
    /\ input = <<>>
    /\ pc = "running"
    /\ state = "unknown"
    /\ fileNameA = <<>>
    /\ fileNameB = <<>>
    /\ startA = Num(-1)
    /\ startB = Num(-1)
    /\ hunkHeaderLine = <<>>
    /\ hunkLinesA = <<>>
    /\ hunkLinesB = <<>>
    /\ out = <<>>
    /\ uPc = "running"
    /\ uState = "commit"
    /\ uStartA = Num(-1)
    /\ uDeltaA = Num(-1)
    /\ uStartB = Num(-1)
    /\ uDeltaB = Num(-1)
    /\ hunkStartLine = Undefined
    /\ hunkLines = <<>>
    /\ uOut = <<>>

\* The line reader before its first chunk, on the stream of the text t
ReaderInit(t) ==
    /\ readable = t
    /\ chunks = <<>>
    /\ rdPc = "running"
    /\ prevLine = Undefined
    /\ rdOut = <<>>

Init ==
    /\ corpus \in Corpora
    /\ ParsersInit
    /\ ReaderInit(<<>>)

\* The source yields one more raw line; every generator still running reads it
Feed(rawLine) ==
    /\ Len(input) < MaxInput(corpus)
    /\ pc = "running" \/ uPc = "running"
    /\ input' = Append(input, rawLine)
    /\ corpus' = corpus
    /\ UNCHANGED readerVars
    /\ IF pc = "running" THEN SbsReadLine(rawLine) ELSE UNCHANGED sbsVars
    /\ IF uPc = "running" THEN UniReadLine(Sanitized[rawLine]) ELSE UNCHANGED uniVars

\* The source ends; every generator still running leaves its loop
EndOfStream ==
    /\ pc = "running" \/ uPc = "running"
    /\ UNCHANGED <<corpus, input, readerVars>>
    /\ IF pc = "running" THEN SbsEndOfStream ELSE UNCHANGED sbsVars
    /\ IF uPc = "running" THEN UniEndOfStream ELSE UNCHANGED uniVars

Next ==
    \/ \E rawLine \in Corpus(corpus) : Feed(rawLine)
    \/ EndOfStream

Spec == Init /\ [][Next]_vars

\* The line reader on its own: a text, cut into chunks at any place
ReaderStart ==
    /\ corpus = "text"
    /\ ParsersInit
    /\ \E t \in Texts : ReaderInit(t)

ReaderNext ==
    \/ \E n \in 1..MaxText : ReadChunk(n) /\ UNCHANGED <<corpus, input, sbsVars, uniVars>>
    \/ ReaderEnd /\ UNCHANGED <<corpus, input, sbsVars, uniVars>>

ReaderSpec == ReaderStart /\ [][ReaderNext]_vars

(***************************************************************************)
(* What the claims speak of, read off the input alone.                     *)
(***************************************************************************)
Max(a, b) == IF a >= b THEN a ELSE b
Last(s) == s[Len(s)]
IsMarker(line) ==
    StartsWith(line, LitCommit) \/ StartsWith(line, LitDiffGit)
        \/ StartsWith(line, LitHunkMark)
IsDeleted(line) == line # <<>> /\ Head(line) = "-"
IsInserted(line) == line # <<>> /\ Head(line) = "+"
IsContext(line) == ~IsDeleted(line) /\ ~IsInserted(line)
NonNull(xs) == SelectSeq(xs, LAMBDA x : x # Null)

\* The regions the lines open, in input order, each hunk with the lines that
\* follow its "@@ " line; region tells which region the last line left open.
\* Reading stops at the first malformed "@@ " line.
RECURSIVE Regions(_, _, _)
Regions(lines, regs, region) ==
    IF lines = <<>> THEN [regs |-> regs, region |-> region, fatal |-> FALSE]
    ELSE LET line == Sanitized[Head(lines)]
         IN  IF StartsWith(line, LitCommit)
             THEN Regions(Tail(lines), regs, "commit")
             ELSE IF StartsWith(line, LitDiffGit)
             THEN Regions(Tail(lines),
                          Append(regs, [k |-> "file", header |-> <<>>, body |-> <<>>]),
                          "diff")
             ELSE IF StartsWith(line, LitHunkMark)
             THEN IF line \in MalformedHeaders
                  THEN [regs |-> regs, region |-> region, fatal |-> TRUE]
                  ELSE Regions(Tail(lines),
                               Append(regs, [k |-> "hunk", header |-> line, body |-> <<>>]),
                               "hunk")
             ELSE IF region = "hunk"
             THEN Regions(Tail(lines),
                          [regs EXCEPT ![Len(regs)].body = Append(@, line)], region)
             ELSE Regions(Tail(lines), regs, region)
RegionsOf(lines) == Regions(lines, <<>>, "unknown")

\* The file headers and hunks the side-by-side generator has yielded
RegionEvents == SelectSeq(out, LAMBDA e : e.k \in {"file", "hunk"})
\* 1 when the generator holds a region it has not yielded yet
OpenRegions == IF pc = "running" /\ state \in {"diff", "hunk"} THEN 1 ELSE 0
\* The step is one in which the running side-by-side generator reads a line
SbsReads == pc = "running" /\ input' # input
\* The sanitized form of the line that the step reads
LineRead == Sanitized[Last(input')]
\* s continues t
Extends(s, t) == Len(s) >= Len(t) /\ SubSeq(s, 1, Len(t)) = t

(***************************************************************************)
(* C1.  In the side-by-side parser, whenever a line starting with          *)
(* "commit ", "diff --git" or "@@ " is read in state 'diff', the pending   *)
(* file header is yielded, and in state 'hunk' the pending hunk, with the  *)
(* metadata held before the line, ahead of anything else the line yields;  *)
(* and every region a "diff --git" or "@@ " line opens is yielded exactly  *)
(* once, in input order.                                                   *)
(***************************************************************************)
C1_FlushStep ==
    (SbsReads /\ IsMarker(LineRead)) =>
        /\ Extends(out', out)
        /\ state = "diff" =>
              /\ Len(out') > Len(out)
              /\ out'[Len(out) + 1] = FileNameEvent(fileNameA, fileNameB)
        /\ state = "hunk" =>
              /\ Len(out') > Len(out)
              /\ out'[Len(out) + 1] =
                     HunkEvent(hunkHeaderLine, fileNameA, fileNameB,
                               hunkLinesA, hunkLinesB, startA, startB)
C1_EmittedOnce ==
    LET r == RegionsOf(input).regs
    IN  /\ Len(RegionEvents) + OpenRegions = Len(r)
        /\ \A j \in 1..Len(RegionEvents) :
              /\ RegionEvents[j].k = r[j].k
              /\ r[j].k = "hunk" => RegionEvents[j].header = r[j].header
C1_FlushBeforeOpen == [][C1_FlushStep]_vars /\ []C1_EmittedOnce
C1_Witness ==
    /\ pc = "running" /\ state = "hunk"
    /\ Len(out) >= 2
    /\ out[Len(out) - 1].k = "file"
    /\ out[Len(out)].k = "hunk"

\* The pairs of lists the side-by-side generator has handed to the hunk
\* formatter, in order, then the pair of the hunk still open
HunkLists ==
    LET flushed == SelectSeq(out, LAMBDA e : e.k = "hunk")
    IN  [j \in 1..Len(flushed) |->
            [linesA |-> flushed[j].linesA, linesB |-> flushed[j].linesB]]
        \o (IF pc = "running" /\ state = "hunk"
            THEN <<[linesA |-> hunkLinesA, linesB |-> hunkLinesB]>> ELSE <<>>)
\* The hunks of the input, in order
HunksOf(lines) == SelectSeq(RegionsOf(lines).regs, LAMBDA r : r.k = "hunk")
NumDeleted(body) == Len(SelectSeq(body, IsDeleted))
NumInserted(body) == Len(SelectSeq(body, IsInserted))
NumContext(body) == Len(SelectSeq(body, IsContext))
RowsOf(h) == Max(Len(h.linesA), Len(h.linesB))
\* A side of row k is absent: a null placeholder or no entry
Absent(xs, k) == k > Len(xs) \/ xs[k] = Null

\* The rows of a hunk body: each context line is a row, and each maximal run
\* of changed lines between context lines takes as many rows as the longer of
\* its deletions and its insertions.
RECURSIVE RunRows(_, _, _)
RunRows(body, dRun, iRun) ==
    IF body = <<>> THEN Max(dRun, iRun)
    ELSE IF IsDeleted(Head(body)) THEN RunRows(Tail(body), dRun + 1, iRun)
    ELSE IF IsInserted(Head(body)) THEN RunRows(Tail(body), dRun, iRun + 1)
    ELSE Max(dRun, iRun) + 1 + RunRows(Tail(body), 0, 0)

(***************************************************************************)
(* C2 as stated.  For a hunk body with d lines starting with "-", i lines  *)
(* starting with "+" and c other lines, in any order, the lists handed to  *)
(* the hunk formatter give max(len(hunkLinesA), len(hunkLinesB)) =         *)
(* max(d + c, i + c) rows.                                                 *)
(***************************************************************************)
C2_RowsAreMaxOfSides ==
    LET hs == HunksOf(input)
    IN  /\ Len(HunkLists) = Len(hs)
        /\ \A j \in 1..Len(hs) :
              RowsOf(HunkLists[j]) =
                  Max(NumDeleted(hs[j].body) + NumContext(hs[j].body),
                      NumInserted(hs[j].body) + NumContext(hs[j].body))

(***************************************************************************)
(* C2 amended.  The lists give max(len(hunkLinesA), len(hunkLinesB)) =     *)
(* c + the sum, over the maximal runs of changed lines between context     *)
(* lines, of max(deletions of the run, insertions of the run) rows, which  *)
(* is never less than max(d + c, i + c).                                   *)
(***************************************************************************)
C2_RowsPerRun ==
    LET hs == HunksOf(input)
    IN  /\ Len(HunkLists) = Len(hs)
        /\ \A j \in 1..Len(hs) :
              /\ RowsOf(HunkLists[j]) = RunRows(hs[j].body, 0, 0)
              /\ RowsOf(HunkLists[j]) >=
                     Max(NumDeleted(hs[j].body) + NumContext(hs[j].body),
                         NumInserted(hs[j].body) + NumContext(hs[j].body))
C2_Witness ==
    /\ pc = "done"
    /\ \E j \in 1..Len(HunkLists) :
          /\ NumContext(HunksOf(input)[j].body) >= 1
          /\ RowsOf(HunkLists[j]) >
                 Max(NumDeleted(HunksOf(input)[j].body),
                     NumInserted(HunksOf(input)[j].body))
                 + NumContext(HunksOf(input)[j].body)

(***************************************************************************)
(* C3.  In the side-by-side parser, after any sequence of hunk-body lines, *)
(* every context line sits at the same index in hunkLinesA and in          *)
(* hunkLinesB, and the entry at that index is the line itself on both      *)
(* sides, never a null placeholder.                                        *)
(***************************************************************************)
\* The indices of xs that hold a context line
ContextAt(xs) == {k \in 1..Len(xs) : xs[k] # Null /\ IsContext(xs[k])}
C3_ContextAligned ==
    LET hs == HunksOf(input)
    IN  /\ Len(HunkLists) = Len(hs)
        /\ \A j \in 1..Len(hs) :
              LET A == HunkLists[j].linesA
                  B == HunkLists[j].linesB
              IN  /\ ContextAt(A) = ContextAt(B)
                  /\ \A k \in ContextAt(A) : A[k] = B[k]
                  /\ SelectSeq(NonNull(A), IsContext)
                         = SelectSeq(hs[j].body, IsContext)
                  /\ SelectSeq(NonNull(B), IsContext)
                         = SelectSeq(hs[j].body, IsContext)
C3_Witness ==
    /\ pc = "running" /\ state = "hunk"
    /\ Len(hunkLinesA) >= 3
    /\ hunkLinesA[1] = Null
    /\ ContextAt(hunkLinesA) # {}
    /\ \E k \in 1..Len(hunkLinesB) : hunkLinesB[k] = Null

(***************************************************************************)
(* C4 as stated.  In the aligned rows of a flushed hunk a side is absent   *)
(* (null placeholder or missing entry) only at row indices at or beyond    *)
(* the number of real lines collected for that side: no absent entry       *)
(* precedes a real line of the same side.                                  *)
(***************************************************************************)
NoAbsentBeforeReal(xs) ==
    \A k \in 1..Len(xs) : xs[k] = Null => k > Len(NonNull(xs))
C4_AbsentOnlyPastRealLines ==
    \A j \in 1..Len(HunkLists) :
        /\ NoAbsentBeforeReal(HunkLists[j].linesA)
        /\ NoAbsentBeforeReal(HunkLists[j].linesB)

(***************************************************************************)
(* C4 amended.  In the aligned rows of a hunk a side is absent only in a   *)
(* row whose other side holds a changed line: the before side only across *)
(* a "+" line, the after side only across a "-" line; no row is absent on  *)
(* both sides, and a null placeholder may precede real lines of its side.  *)
(***************************************************************************)
C4_AbsentOnlyAcrossChange ==
    \A j \in 1..Len(HunkLists) :
        LET A == HunkLists[j].linesA
            B == HunkLists[j].linesB
        IN  \A k \in 1..RowsOf(HunkLists[j]) :
                /\ Absent(A, k) => ~Absent(B, k) /\ IsInserted(B[k])
                /\ Absent(B, k) => ~Absent(A, k) /\ IsDeleted(A[k])
C4_Witness ==
    \E j \in 1..Len(HunkLists) :
        LET A == HunkLists[j].linesA
        IN  \E k \in 1..Len(A) : A[k] = Null /\ k <= Len(NonNull(A))

\* The step adds a separator to what the side-by-side generator has yielded
SeparatorYielded ==
    \E k \in (Len(out) + 1)..Len(out') : out'[k].k = "separator"
\* The step is one in which the side-by-side generator reads a "commit " line
SbsReadsCommit == SbsReads /\ StartsWith(LineRead, LitCommit)
\* The lines after the last "commit " line
RECURSIVE SinceLastCommit(_)
SinceLastCommit(lines) ==
    IF lines = <<>> \/ StartsWith(Sanitized[Last(lines)], LitCommit) THEN <<>>
    ELSE Append(SinceLastCommit(SubSeq(lines, 1, Len(lines) - 1)), Last(lines))
\* A "commit " line has been read
HasCommit == \E k \in 1..Len(input) : StartsWith(Sanitized[input[k]], LitCommit)
\* The commit that the lines end with holds at least one hunk
PrecedingCommitHasHunk ==
    \E k \in 1..Len(SinceLastCommit(input)) :
        StartsWith(Sanitized[SinceLastCommit(input)[k]], LitHunkMark)

(***************************************************************************)
(* C5 as stated.  A separator is yielded when a "commit " line is read if  *)
(* and only if the preceding commit (the lines since the previous          *)
(* "commit " line) held at least one hunk.                                 *)
(***************************************************************************)
C5_SeparatorIffCommitHadHunk ==
    [][(SbsReadsCommit /\ HasCommit)
           => (SeparatorYielded <=> PrecedingCommitHasHunk)]_vars

(***************************************************************************)
(* C5 amended.  A separator is yielded when a "commit " line is read if    *)
(* and only if a hunk is still open then, that is, the last "commit ",     *)
(* "diff --git" or "@@ " line before it is a "@@ " line; the separator     *)
(* comes right after that hunk and right before the yield of the new       *)
(* commit line; no other step, the end of the stream included, yields a    *)
(* separator.                                                              *)
(***************************************************************************)
C5_CommitStep ==
    SbsReadsCommit =>
        /\ SeparatorYielded <=> RegionsOf(input).region = "hunk"
        /\ RegionsOf(input).region = "hunk" =>
              out' = out \o <<HunkEvent(hunkHeaderLine, fileNameA, fileNameB,
                                        hunkLinesA, hunkLinesB, startA, startB),
                              SeparatorEvent, CommitEvent(LineRead)>>
C5_OtherStep == ~SbsReadsCommit => ~SeparatorYielded
C5_Placement ==
    \A k \in 1..Len(out) :
        out[k].k = "separator" =>
            /\ k > 1 /\ out[k - 1].k = "hunk"
            /\ k < Len(out) /\ out[k + 1].k = "commit"
C5_SeparatorIffHunkOpen ==
    [][C5_CommitStep /\ C5_OtherStep]_vars /\ []C5_Placement
C5_Witness ==
    /\ Len(out) >= 3
    /\ out[Len(out) - 2].k = "hunk"
    /\ out[Len(out) - 1].k = "separator"
    /\ out[Len(out)].k = "commit"

(***************************************************************************)
(* C6.  For every finite input that ends without a fatal header error the  *)
(* side-by-side parser terminates and, at the end of the stream, yields    *)
(* the region still open: in state 'hunk' the hunk with every line         *)
(* collected since its "@@ " marker, in state 'diff' the file header;      *)
(* nothing collected is dropped.                                           *)
(***************************************************************************)
\* The step is the end of the stream for the side-by-side generator
SbsEnds == pc = "running" /\ input' = input /\ sbsVars' # sbsVars
C6_EndStep ==
    SbsEnds =>
        /\ pc' = "done"
        /\ out' = out \o
              (IF RegionsOf(input).region = "diff"
               THEN <<FileNameEvent(fileNameA, fileNameB)>>
               ELSE IF RegionsOf(input).region = "hunk"
               THEN <<HunkEvent(hunkHeaderLine, fileNameA, fileNameB,
                                hunkLinesA, hunkLinesB, startA, startB)>>
               ELSE <<>>)
C6_NothingDropped ==
    pc = "done" =>
        LET r == RegionsOf(input).regs
        IN  /\ Len(RegionEvents) = Len(r)
            /\ \A j \in 1..Len(r) :
                  /\ RegionEvents[j].k = r[j].k
                  /\ r[j].k = "hunk" =>
                        /\ NonNull(RegionEvents[j].linesA)
                               = SelectSeq(r[j].body, LAMBDA l : ~IsInserted(l))
                        /\ NonNull(RegionEvents[j].linesB)
                               = SelectSeq(r[j].body, LAMBDA l : ~IsDeleted(l))
            /\ RegionsOf(input).region \in {"diff", "hunk"} =>
                  /\ out # <<>>
                  /\ Last(out).k = Last(r).k
C6_CanEnd == pc = "running" => ENABLED EndOfStream
C6_EndOfStreamFlush ==
    [][C6_EndStep]_vars /\ [](C6_NothingDropped /\ C6_CanEnd)
C6_Witness ==
    /\ pc = "done"
    /\ out # <<>>
    /\ Last(out).k = "hunk"
    /\ Len(NonNull(Last(out).linesA)) >= 2
    /\ Len(NonNull(Last(out).linesB)) >= 2

\* The step is one in which the running unified generator reads a line
UniReads == uPc = "running" /\ input' # input
\* What the side-by-side generator holds back of the region still open
PendingYield ==
    IF state = "diff" THEN <<FileNameEvent(fileNameA, fileNameB)>>
    ELSE IF state = "hunk"
    THEN <<HunkEvent(hunkHeaderLine, fileNameA, fileNameB,
                     hunkLinesA, hunkLinesB, startA, startB)>>
    ELSE <<>>
\* The lines of the corpora that the unified parser takes for a hunk marker
\* and whose header is malformed
UniMalformedHeaders == MalformedHeaders \cup {LineNoSpace}

(***************************************************************************)
(* C7.  In both parsers a line recognised as a hunk marker whose header is *)
(* malformed (no " @@" after the first "@@ ", an A-part that does not      *)
(* start with "-", a B-part that does not start with "+") throws: the      *)
(* generator ends, no hunk state is entered, and nothing is yielded for    *)
(* that line or for any later line; only what was pending before the line  *)
(* is flushed.                                                             *)
(***************************************************************************)
C7_SbsStep ==
    (SbsReads /\ LineRead \in MalformedHeaders) =>
        /\ pc' = "failed"
        /\ state' = state
        /\ out' = out \o PendingYield
C7_UniStep ==
    (UniReads /\ LineRead \in UniMalformedHeaders) =>
        /\ uPc' = "failed"
        /\ uState' = uState
        /\ Extends(uOut', uOut)
        /\ hunkLines = <<>> => uOut' = uOut
        /\ \A k \in (Len(uOut) + 1)..Len(uOut') :
              /\ uOut'[k].k \in {"hunkStart", "row"}
              /\ uOut'[k].k = "hunkStart" => uOut'[k].line = hunkStartLine
C7_Dead ==
    /\ pc = "failed" => UNCHANGED <<pc, state, out>>
    /\ uPc = "failed" => UNCHANGED <<uPc, uState, uOut>>
C7_MalformedHeaderIsFatal == [][C7_SbsStep /\ C7_UniStep /\ C7_Dead]_vars
C7_Witness ==
    /\ pc = "failed" /\ uPc = "failed"
    /\ Sanitized[Last(input)] \in MalformedHeaders
    /\ out # <<>> /\ Last(out).k = "hunk"
    /\ uOut # <<>> /\ Last(uOut).k = "hunkStart"

(***************************************************************************)
(* C8 as stated.  In the side-by-side parser, whenever the state is        *)
(* 'hunk', startA and startB are positive integers: a "@@ " line whose     *)
(* start numbers are not numeric, or 0, is fatal and enters no hunk state. *)
(***************************************************************************)
C8_StartsArePositive ==
    state = "hunk" =>
        /\ IsNum(startA) /\ startA[1] > 0
        /\ IsNum(startB) /\ startB[1] > 0

(***************************************************************************)
(* C8 amended.  Whenever the state is 'hunk' and the generator has not     *)
(* thrown, startA and startB are what parseInt gives for the text after    *)
(* the sign of each part: an integer, which may be 0 ("@@ -0,0 +1,5 @@")   *)
(* or negative (after a doubled sign), or NaN when the text is not         *)
(* numeric; such lines enter the hunk state and are not fatal.             *)
(***************************************************************************)
\* The start numbers of the headers of the corpora that are not malformed
ExpectedStarts(line) ==
    IF line = LineNotNumeric THEN <<NaN, NaN>>
    ELSE IF line = LineDoubleSign THEN <<Num(-2), Num(1)>>
    ELSE LET h == CHOOSE c \in HeaderCases : HeaderOf(c) = line
         IN  <<Num(h[1]), Num(h[3])>>
LenientHeaders ==
    {LineNotNumeric, LineDoubleSign, HeaderOf(<<0, 0, 1, 5, <<>> >>)}
C8_Step ==
    (SbsReads /\ LineRead \in LenientHeaders) =>
        /\ pc' = "running"
        /\ state' = "hunk"
        /\ <<startA', startB'>> = ExpectedStarts(LineRead)
C8_InHunk ==
    (pc # "failed" /\ state = "hunk") =>
        /\ hunkHeaderLine \notin MalformedHeaders
        /\ <<startA, startB>> = ExpectedStarts(hunkHeaderLine)
C8_StartsAreParseInt == [][C8_Step]_vars /\ []C8_InHunk
C8_Witness ==
    /\ pc = "running" /\ state = "hunk"
    /\ startA = Num(0) /\ startB = Num(1)

(***************************************************************************)
(* C9.  In both parsers, for a line "@@ -<a>[,<x>] +<b>[,<y>] @@<text>"    *)
(* with decimal a, b, x, y, header parsing sets startA = a and startB = b, *)
(* with or without the counts and whatever the trailing text.  (In the     *)
(* unified parser the flush of the previous hunk comes first; the header   *)
(* is parsed when that flush does not throw.)                              *)
(***************************************************************************)
C9_SbsStep ==
    \A h \in HeaderCases :
        (SbsReads /\ LineRead = HeaderOf(h)) =>
            /\ pc' = "running"
            /\ startA' = Num(h[1])
            /\ startB' = Num(h[3])
C9_UniStep ==
    \A h \in HeaderCases :
        (UniReads /\ LineRead = HeaderOf(h) /\ uPc' = "running") =>
            /\ uStartA' = Num(h[1])
            /\ uStartB' = Num(h[3])
C9_HeaderStarts == [][C9_SbsStep /\ C9_UniStep]_vars
C9_Witness ==
    /\ pc = "running" /\ uPc = "running"
    /\ input # <<>>
    /\ Sanitized[Last(input)] = HeaderOf(<<7, 2, 8, -1, <<" ", "@", "@", " ", "g">> >>)
    /\ startA = Num(7) /\ startB = Num(8)
    /\ uStartA = Num(7) /\ uStartB = Num(8)

(***************************************************************************)
(* C10.  In the side-by-side parser in state 'diff', a line "Binary files  *)
(* X and Y differ", X being "a/P" or "/dev/null" and Y being "b/Q" or      *)
(* "/dev/null", sets pathBefore to P, or to the empty string when X is     *)
(* "/dev/null", and pathAfter to Q, or to the empty string when Y is       *)
(* "/dev/null", also when P and Q hold spaces.                             *)
(***************************************************************************)
PathOf(side) == IF side = LitDevNull THEN <<>> ELSE SliceFrom(side, 2)
C10_Step ==
    \A c \in BinaryCases :
        (SbsReads /\ state = "diff" /\ LineRead = BinaryOf(c)) =>
            /\ fileNameA' = PathOf(c[1])
            /\ fileNameB' = PathOf(c[2])
C10_BinaryPaths == [][C10_Step]_vars

\* The lines after the last "diff --git" line
RECURSIVE SinceLastDiff(_)
SinceLastDiff(lines) ==
    IF lines = <<>> \/ StartsWith(Sanitized[Last(lines)], LitDiffGit) THEN <<>>
    ELSE Append(SinceLastDiff(SubSeq(lines, 1, Len(lines) - 1)), Last(lines))
\* The open file region holds a "Binary files" line that the pattern does not
\* match
RegionHasNonMatching ==
    \E k \in 1..Len(SinceLastDiff(input)) :
        Sanitized[SinceLastDiff(input)[k]] \in NonMatchingBinary
\* The open file region holds nothing but such lines
RegionOnlyNonMatching ==
    \A k \in 1..Len(SinceLastDiff(input)) :
        Sanitized[SinceLastDiff(input)[k]] \in NonMatchingBinary
\* The step yields the header of the open file region
FileHeaderYielded ==
    /\ pc = "running" /\ state = "diff"
    /\ Len(out') > Len(out) /\ out'[Len(out) + 1].k = "file"

(***************************************************************************)
(* C11 as stated.  In the side-by-side parser, the file header yielded for *)
(* a region in which a "Binary files" line that does not match the pattern *)
(* was read has both file names empty.                                     *)
(***************************************************************************)
C11_HeaderNamesEmpty ==
    [][(FileHeaderYielded /\ RegionHasNonMatching) =>
           /\ out'[Len(out) + 1].a = <<>>
           /\ out'[Len(out) + 1].b = <<>>]_vars

(***************************************************************************)
(* C11 amended.  In the side-by-side parser in state 'diff', a line that   *)
(* starts with "Binary files" and does not match the pattern is not fatal, *)
(* yields nothing, and leaves the state 'diff' and both file names as they *)
(* were; the file header of a region that holds no other line than such    *)
(* lines has both file names empty.                                        *)
(***************************************************************************)
C11_Step ==
    (SbsReads /\ state = "diff" /\ LineRead \in NonMatchingBinary) =>
        /\ pc' = "running"
        /\ out' = out
        /\ state' = "diff"
        /\ fileNameA' = fileNameA
        /\ fileNameB' = fileNameB
C11_HeaderStep ==
    (FileHeaderYielded /\ RegionHasNonMatching /\ RegionOnlyNonMatching) =>
        out'[Len(out) + 1] = FileNameEvent(<<>>, <<>>)
C11_NonMatchingBinaryIgnored == [][C11_Step /\ C11_HeaderStep]_vars
C11_Witness ==
    /\ pc = "done"
    /\ input = <<LineDiffGit, LineBinaryNoPrefix>>
    /\ out = <<FileNameEvent(<<>>, <<>>)>>

(***************************************************************************)
(* C12.  In the side-by-side parser in state 'unknown', a line whose       *)
(* sanitized form starts with none of "commit ", "diff --git", "@@ "       *)
(* yields exactly one output, the line as it was read, unsanitized, and    *)
(* leaves the state 'unknown' and the file names, the starts, the hunk     *)
(* header line and both hunk lists as they were; and a state other than    *)
(* 'unknown' is never followed by 'unknown'.                               *)
(***************************************************************************)
C12_Step ==
    (SbsReads /\ state = "unknown" /\ ~IsMarker(LineRead)) =>
        /\ out' = Append(out, RawEvent(Last(input')))
        /\ state' = "unknown"
        /\ pc' = "running"
        /\ UNCHANGED <<fileNameA, fileNameB, startA, startB, hunkHeaderLine,
                       hunkLinesA, hunkLinesB>>
C12_NoReturn == state # "unknown" => state' # "unknown"
C12_UnknownPassThrough == [][C12_Step /\ C12_NoReturn]_vars
C12_Witness ==
    /\ state = "commit"
    /\ input = <<LineColoured, LineDeleted, LineCommit>>
    /\ SubSeq(out, 1, 2) = <<RawEvent(LineColoured), RawEvent(LineDeleted)>>
    /\ Sanitized[LineColoured] # LineColoured

\* The step is one in which the running unified generator flushes a hunk: what
\* it yields starts with the hunk's header line
UniFlushes ==
    /\ uPc = "running"
    /\ Len(uOut') > Len(uOut)
    /\ uOut'[Len(uOut) + 1].k = "hunkStart"
\* The rows that the step yields
RowsYielded ==
    SelectSeq(SubSeq(uOut', Len(uOut) + 1, Len(uOut')), LAMBDA e : e.k = "row")

(***************************************************************************)
(* C13.  In the unified parser, when a hunk whose header gives the starts  *)
(* startA and startB is flushed, the k-th row (from 0) that has an entry   *)
(* on the before side shows the number startA + k there, and the k-th row  *)
(* that has an entry on the after side shows startB + k there; so the      *)
(* first row shows startA and startB.  Flushes that fail are left aside.   *)
(***************************************************************************)
C13_Step ==
    (UniFlushes /\ uPc' # "failed" /\ IsNum(uStartA) /\ IsNum(uStartB)) =>
        \A k \in 0..(Len(RowsYielded) - 1) :
            /\ RowsYielded[k + 1].lineA # <<>> =>
                   RowsYielded[k + 1].noA = Num(uStartA[1] + k)
            /\ RowsYielded[k + 1].lineB # <<>> =>
                   RowsYielded[k + 1].noB = Num(uStartB[1] + k)
C13_RowNumbers == [][C13_Step]_vars

\* The text delivered so far: the chunks, joined
RECURSIVE Joined(_)
Joined(cs) == IF cs = <<>> THEN <<>> ELSE Head(cs) \o Joined(Tail(cs))
\* The whole text split at "\n" and "\r\n"
Pieces == SplitLines(Joined(chunks), <<>>)
\* The final line of the text, the one no newline ends
FinalLine == Last(Pieces)
\* The lines of the text: its pieces, the trailing piece left out if empty
TextLines ==
    IF FinalLine = <<>> THEN SubSeq(Pieces, 1, Len(Pieces) - 1) ELSE Pieces
\* The number of characters in the lines xs
RECURSIVE TotalLen(_)
TotalLen(xs) == IF xs = <<>> THEN 0 ELSE Len(Head(xs)) + TotalLen(Tail(xs))
\* The step is the one that ends the line reader
ReaderEnds == rdPc = "running" /\ rdPc' = "done"

(***************************************************************************)
(* C14.  In the line reader, the step at the end of the stream yields the  *)
(* final line of the text, the one no newline ends, once if it is not      *)
(* empty and yields nothing if it is empty; and no text is yielded twice:  *)
(* the lines yielded never hold more characters than the text delivered.   *)
(***************************************************************************)
C14_EndStep ==
    ReaderEnds =>
        rdOut' = IF FinalLine # <<>> THEN Append(rdOut, FinalLine) ELSE rdOut
C14_NoRepeat == TotalLen(rdOut) <= Len(Joined(chunks))
C14_FinalLineOnce == [][C14_EndStep]_vars /\ []C14_NoRepeat

(***************************************************************************)
(* C15.  In the line reader, however the text is cut into chunks, the      *)
(* lines yielded when the stream has ended are the pieces of the whole     *)
(* text split at "\n" and "\r\n", a trailing empty piece left out.         *)
(***************************************************************************)
C15_ChunkingIrrelevant == rdPc = "done" => rdOut = TextLines

(***************************************************************************)
(* C16.  In the unified parser, a line that starts with "commit " and is   *)
(* read while a hunk is open flushes the hunk and is then yielded as       *)
(* commit text, the parser entering state 'commit' so that the lines after *)
(* it are yielded too; the line is not appended to the hunk's lines.       *)
(***************************************************************************)
C16_Step ==
    (UniReads /\ uState = "hunk" /\ StartsWith(LineRead, LitCommit)
        /\ uPc' = "running") =>
        /\ hunkLines' = <<>>
        /\ uState' = "commit"
        /\ uOut' # <<>> /\ Last(uOut') = TextEvent(LineRead)
C16_CommitClosesHunk == [][C16_Step]_vars

\* The step is one in which the running unified generator calls
\* yieldHunkIfNeeded with lines collected: it reads a "diff " or "@@" line, or
\* the stream ends
UniFlushAttempted ==
    /\ uPc = "running"
    /\ hunkLines # <<>>
    /\ \/ input' = input
       \/ input' # input /\ \/ StartsWith(LineRead, LitDiffSp)
                            \/ StartsWith(LineRead, LitAtAt)

(***************************************************************************)
(* C17.  In the unified parser, the flush of a hunk never fails, whatever  *)
(* the counts of its header and the lines collected: the hunk's header     *)
(* line is yielded, no row is built from a line that is missing, and the   *)
(* collected lines are emptied.                                            *)
(***************************************************************************)
C17_Step ==
    UniFlushAttempted =>
        /\ hunkLines' = <<>>
        /\ Len(uOut') > Len(uOut)
        /\ \/ uPc' \in {"running", "done"}
           \/ input' # input /\ StartsWith(LineRead, LitAtAt)
C17_FlushNeverFails == [][C17_Step]_vars

\* The header line of the open hunk gives no count on the before side, on the
\* after side
OmitsCountA == \E c \in HeaderCases : hunkStartLine = HeaderOf(c) /\ c[2] < 0
OmitsCountB == \E c \in HeaderCases : hunkStartLine = HeaderOf(c) /\ c[4] < 0

(***************************************************************************)
(* C18.  In the unified parser, when a hunk whose header omits a count, as *)
(* "@@ -5 +5 @@" does, is flushed with lines collected for that side, at   *)
(* a "diff " or "@@" line or at the end of the stream, rows are yielded    *)
(* for the lines of that side.                                             *)
(***************************************************************************)
C18_Step ==
    UniFlushAttempted =>
        /\ (OmitsCountA /\ LinesA(hunkLines) # <<>>) =>
               \E k \in 1..Len(RowsYielded) : RowsYielded[k].lineA # <<>>
        /\ (OmitsCountB /\ LinesB(hunkLines) # <<>>) =>
               \E k \in 1..Len(RowsYielded) : RowsYielded[k].lineB # <<>>
C18_OmittedCountRows == [][C18_Step]_vars

\* The sanitized lines read after the last "@@ " line
RECURSIVE SinceHunkMark(_)
SinceHunkMark(lines) ==
    IF lines = <<>> \/ StartsWith(Sanitized[Last(lines)], LitHunkMark) THEN <<>>
    ELSE Append(SinceHunkMark(SubSeq(lines, 1, Len(lines) - 1)),
                Sanitized[Last(lines)])
\* The side-by-side generator is inside a hunk
InHunk == pc = "running" /\ state = "hunk"

(***************************************************************************)
(* C19.  In the side-by-side parser, at every point inside a hunk, the     *)
(* entries of hunkLinesA other than null are the "-" lines and the context *)
(* lines read since the "@@ " line, in the order read, and those of        *)
(* hunkLinesB are the "+" lines and the context lines read since it; the   *)
(* "@@ " line itself is in neither list.                                   *)
(***************************************************************************)
C19_ListsHoldBody ==
    InHunk =>
        /\ NonNull(hunkLinesA)
               = SelectSeq(SinceHunkMark(input), LAMBDA l : ~IsInserted(l))
        /\ NonNull(hunkLinesB)
               = SelectSeq(SinceHunkMark(input), LAMBDA l : ~IsDeleted(l))
        /\ \A k \in 1..Len(hunkLinesA) : hunkLinesA[k] # hunkHeaderLine
        /\ \A k \in 1..Len(hunkLinesB) : hunkLinesB[k] # hunkHeaderLine
C19_Witness ==
    /\ InHunk
    /\ input = <<LineHunk, LineInserted, LineColoured, LineDeleted>>
    /\ hunkLinesA = <<Null, Sanitized[LineColoured], LineDeleted>>
    /\ hunkLinesB = <<LineInserted, Sanitized[LineColoured]>>

(***************************************************************************)
(* C20.  In the side-by-side parser, whenever the state is not 'hunk',     *)
(* hunkLinesA and hunkLinesB are empty, and a step that yields a hunk      *)
(* leaves both empty; so the lines held at any time are those read since   *)
(* the last "@@ " line, the lines of the one hunk that is open.            *)
(***************************************************************************)
HunkYielded ==
    \E k \in (Len(out) + 1)..Len(out') : out'[k].k = "hunk"
C20_EmptyOutsideHunk ==
    state # "hunk" => hunkLinesA = <<>> /\ hunkLinesB = <<>>
C20_OneHunkOnly ==
    /\ Len(NonNull(hunkLinesA)) <= Len(SinceHunkMark(input))
    /\ Len(NonNull(hunkLinesB)) <= Len(SinceHunkMark(input))
C20_EmptyAfterFlush ==
    HunkYielded => hunkLinesA' = <<>> /\ hunkLinesB' = <<>>
C20_ListsCleared ==
    /\ [](C20_EmptyOutsideHunk /\ C20_OneHunkOnly)
    /\ [][C20_EmptyAfterFlush]_vars
C20_Witness ==
    /\ state = "diff"
    /\ input = <<LineHunk, LineDeleted, LineContext, LineDiffGit>>
    /\ Len(out) = 1 /\ out[1].k = "hunk"
    /\ out[1].linesA = <<LineDeleted, LineContext>>
    /\ hunkLinesA = <<>> /\ hunkLinesB = <<>>

=============================================================================
